---- MODULE Spec2Model ----
(***************************************************************************)
(* Model of src/features/energy_pred/crystal_analysis.py: the species-key  *)
(* parser of class Crystal, the property-table lookup _get_values, the     *)
(* guarded site enumeration _initialize_structure_analysis, and the        *)
(* descriptor loops (Eb_sum, Vr_max) of get_descriptors.                   *)
(*                                                                         *)
(* Strings are sequences of one-character strings.  A float is a record    *)
(* [nan, v]: NaN is the not-a-number value, F(v) the number v.  A Python   *)
(* dict is the sequence of its <<key, value>> items in insertion order.    *)
(***************************************************************************)
EXTENDS Integers, Sequences, FiniteSets, TLC

\* ---------------------------------------------------------------- bounds
MaxKeyLen == 4

\* ------------------------------------------------------------- alphabet
\* The character classes the regular expressions of the parser tell apart.
Upper == {"M", "O"}
Lower == {"n"}
Letters == Upper \cup Lower
Digits == {"1", "2", "3"}
Signs == {"+", "-"}
Alphabet == Letters \cup Digits \cup Signs

\* The elements of the periodic table that the alphabet can spell.
ElementSymbols == {<<"M", "n">>, <<"O">>}

Strings == UNION {[1..n -> Alphabet] : n \in 0..MaxKeyLen}

\* ---------------------------------------------------------------- floats
NaN == [nan |-> TRUE, v |-> 0]
F(x) == [nan |-> FALSE, v |-> x]

\* --------------------------------------------------------- string helpers
DigitValue(c) == CASE c = "1" -> 1 [] c = "2" -> 2 [] c = "3" -> 3 [] OTHER -> 0

\* int()/float() of a run of decimal digits.
RECURSIVE DecimalValue(_)
DecimalValue(s) ==
    IF s = <<>> THEN 0
    ELSE 10 * DecimalValue(SubSeq(s, 1, Len(s) - 1)) + DigitValue(s[Len(s)])

\* Length of the longest prefix of s, read from position i on, made of cls.
RECURSIVE RunLen(_, _, _)
RunLen(s, i, cls) ==
    IF i > Len(s) \/ s[i] \notin cls THEN 0 ELSE 1 + RunLen(s, i + 1, cls)

\* s[:-1]
DropLast(s) == IF s = <<>> THEN <<>> ELSE SubSeq(s, 1, Len(s) - 1)

\* float(s) succeeds: over this alphabet (no ".", "e", "_", blank) exactly
\* the strings [+-]?digits+ are float literals.
IsFloatLiteral(s) ==
    LET body == IF s # <<>> /\ s[1] \in Signs THEN SubSeq(s, 2, Len(s)) ELSE s
    IN  body # <<>> /\ \A i \in 1..Len(body) : body[i] \in Digits

\* round(float(s)) for a float literal s.
RoundFloat(s) ==
    IF s[1] = "-" THEN 0 - DecimalValue(SubSeq(s, 2, Len(s)))
    ELSE IF s[1] = "+" THEN DecimalValue(SubSeq(s, 2, Len(s)))
    ELSE DecimalValue(s)

\* ------------------------------------------------------------ the parser
\* re.split(r"(?=\d)", s, maxsplit=1): one split at the first position that
\* is followed by a digit (position 0 included), none when s has no digit.
SplitBeforeFirstNumber(s) ==
    LET ps == {i \in 1..Len(s) : s[i] \in Digits}
    IN  IF ps = {} THEN <<s>>
        ELSE LET p == CHOOSE i \in ps : \A j \in ps : i <= j
             IN  <<SubSeq(s, 1, p - 1), SubSeq(s, p, Len(s))>>

\* re.match(r"[A-Za-z]+\d+\+", s): a prefix match.
ReMatchStrict(s) ==
    LET a == RunLen(s, 1, Letters)
        d == RunLen(s, a + 1, Digits)
    IN  a >= 1 /\ d >= 1 /\ a + d + 1 <= Len(s) /\ s[a + d + 1] = "+"

Raise(exc) == [kind |-> "error", exc |-> exc, species |-> FALSE, symbol |-> <<>>, oxi |-> 0]
Return(sp, sym, oxi) == [kind |-> "ok", exc |-> "", species |-> sp, symbol |-> sym, oxi |-> oxi]

\* pymatgen's Species.from_string: re.search of
\* ([A-Z][a-z]*)([0-9.]*)([+\-]*)(.*); the symbol must name an element, the
\* oxidation state is the digit run (1 when absent), negated when the sign
\* run is exactly "-"; a non-empty remainder must be a "name=value" property.
SpeciesFromString(s) ==
    LET ups == {i \in 1..Len(s) : s[i] \in Upper}
    IN  IF ups = {} THEN Raise("ValueError")
        ELSE LET p  == CHOOSE i \in ups : \A j \in ups : i <= j
                 l  == RunLen(s, p + 1, Lower)
                 d  == RunLen(s, p + 1 + l, Digits)
                 g  == RunLen(s, p + 1 + l + d, Signs)
                 sym == SubSeq(s, p, p + l)
                 num == SubSeq(s, p + 1 + l, p + l + d)
                 sgn == SubSeq(s, p + 1 + l + d, p + l + d + g)
                 mag == IF d = 0 THEN 1 ELSE DecimalValue(num)
             IN  IF p + l + d + g < Len(s) THEN Raise("IndexError")
                 ELSE IF d = 0 /\ g = 0 THEN Raise("ValueError")
                 ELSE IF sym \notin ElementSymbols THEN Raise("ValueError")
                 ELSE Return(TRUE, sym, IF sgn = <<"-">> THEN 0 - mag ELSE mag)

\* Crystal._parse_species_string
ParseSpeciesString(s) ==
    IF ~ReMatchStrict(s)
    THEN LET split_str == SplitBeforeFirstNumber(s)
         IN  IF Len(split_str) < 2 THEN Raise("IndexError")
             ELSE IF ~IsFloatLiteral(DropLast(split_str[2])) THEN Raise("ValueError")
             ELSE Return(FALSE, split_str[1], RoundFloat(DropLast(split_str[2])))
    ELSE LET species == SpeciesFromString(s)
         IN  IF species.kind = "error" THEN species
             ELSE Return(TRUE, species.symbol, species.oxi)

\* ------------------------------------------------------- property tables
\* A row of Eb.csv / Vr.csv: the element symbol, the comparison column (the
\* column named by EB_DICT["comparison"] / VR_DICT["comparison"]) and the
\* value column (EB_DICT["column_name"] / VR_DICT["column_name"]).
MaxRows == 2
Row(e, c, x) == [elem |-> e, cmp |-> c, val |-> x]
CmpValues == {3, -2}
TableValues == {1, 2}
Rows == {Row(e, c, x) : e \in ElementSymbols, c \in CmpValues, x \in TableValues}
Tables == UNION {[1..n -> Rows] : n \in 0..MaxRows}

\* Tables of the life-cycle specification.
SampleEb == { <<Row(<<"M", "n">>, 3, 1), Row(<<"O">>, -2, 2)>>,
              <<Row(<<"O">>, -2, 2), Row(<<"O">>, -2, 1)>> }
SampleVr == { <<>>, <<Row(<<"O">>, 3, 1), Row(<<"M", "n">>, 3, 2)>> }

\* ------------------------------------------------- coordination records
\* The species strings CrystalNN.get_cn_dict uses as keys.
SpeciesKeys == { <<"M", "n", "3", "+">>, <<"O", "2", "-">> }
CNValues == {0, 1, 2}
SiteCNValues == {2}
MaxSpecies == 2
MaxSites == 2

Keys(d) == [i \in 1..Len(d) |-> d[i][1]]
Values(d) == [i \in 1..Len(d) |-> d[i][2]]
HasKey(d, k) == \E i \in 1..Len(d) : d[i][1] = k
Get(d, k) == d[CHOOSE i \in 1..Len(d) : d[i][1] = k][2]

\* d[k] = x on a dict: in place for a key already present, appended otherwise.
DictSet(d, k, x) ==
    IF HasKey(d, k)
    THEN [i \in 1..Len(d) |-> IF d[i][1] = k THEN <<k, x>> ELSE d[i]]
    ELSE Append(d, <<k, x>>)

DistinctKeys(d) == \A i, j \in 1..Len(d) : d[i][1] = d[j][1] => i = j

Records(cns) ==
    {d \in UNION {[1..n -> SpeciesKeys \X cns] : n \in 0..MaxSpecies} : DistinctKeys(d)}

\* The vacancies VacancyGenerator.get_defects yields for a structure, each with
\* the symbol of the removed site and the coordination dict CrystalNN gives it.
Vacancy(sym, d) == [symbol |-> sym, cn_dict |-> d]
Structures(cns) ==
    UNION {[1..n -> {Vacancy(sym, d) : sym \in ElementSymbols, d \in Records(cns)}]
             : n \in 0..MaxSites}

RECURSIVE SelectSeqBy(_, _)
SelectSeqBy(s, sym) ==
    IF s = <<>> THEN <<>>
    ELSE IF s[1].symbol = sym
         THEN <<s[1].cn_dict>> \o SelectSeqBy(Tail(s), sym)
         ELSE SelectSeqBy(Tail(s), sym)

\* -------------------------------------------------------- class Crystal
\* Variant without the early return on _cn_dicts_initialized.
InitializeStructureAnalysisUnguarded(self, structure, species_symbol) ==
    [cn_dicts_initialized |-> TRUE,
     cn_dicts |-> SelectSeqBy(structure, species_symbol),
     enumerations |-> self.enumerations + 1]

\* Crystal._initialize_structure_analysis on self = [_cn_dicts_initialized,
\* cn_dicts, enumerations]; enumerations counts the runs of the enumeration.
InitializeStructureAnalysis(self, structure, species_symbol) ==
    IF self.cn_dicts_initialized THEN self
    ELSE [cn_dicts_initialized |-> TRUE,
          cn_dicts |-> SelectSeqBy(structure, species_symbol),
          enumerations |-> self.enumerations + 1]

\* Variant taking the last matching row (.iloc[-1]).
LookupValueLast(dataframe, key) ==
    LET species == SpeciesFromString(key)
        hits == {i \in 1..Len(dataframe) :
                    /\ dataframe[i].elem = species.symbol
                    /\ dataframe[i].cmp = species.oxi}
    IN  IF hits # {}
        THEN F(dataframe[CHOOSE i \in hits : \A j \in hits : i >= j].val)
        ELSE NaN

\* The body of the inner loop of _get_values: the value column of the first
\* row whose elem and comparison columns match the species, else np.nan.
\* (The keys of a cn_dict are species strings that Species.from_string reads.)
LookupValue(dataframe, key) ==
    LET species == SpeciesFromString(key)
        hits == {i \in 1..Len(dataframe) :
                    /\ dataframe[i].elem = species.symbol
                    /\ dataframe[i].cmp = species.oxi}
    IN  IF hits # {}
        THEN F(dataframe[CHOOSE i \in hits : \A j \in hits : i <= j].val)
        ELSE NaN

\* value = {}; for species_string, cn in cn_dict.items(): value[...] = ...
RECURSIVE ValueDict(_, _, _)
ValueDict(cn_dict, dataframe, value) ==
    IF cn_dict = <<>> THEN value
    ELSE ValueDict(Tail(cn_dict), dataframe,
                   DictSet(value, cn_dict[1][1], LookupValue(dataframe, cn_dict[1][1])))

\* Variant appending nothing for an empty cn_dict.
GetValuesSkipEmpty(cn_dicts, dataframe) ==
    LET kept == SelectSeq(cn_dicts, LAMBDA d : d # <<>>)
    IN  [i \in 1..Len(kept) |-> ValueDict(kept[i], dataframe, <<>>)]

\* The outer loop of _get_values over self.cn_dicts.
GetValues(cn_dicts, dataframe) ==
    [i \in 1..Len(cn_dicts) |-> ValueDict(cn_dicts[i], dataframe, <<>>)]

\* Crystal._get_values: the guarded enumeration, then the lookups.
GetValuesCall(self, dataframe, structure, species_symbol) ==
    LET after == InitializeStructureAnalysis(self, structure, species_symbol)
    IN  [self |-> after, values |-> GetValues(after.cn_dicts, dataframe)]

\* ------------------------------------------------------ get_descriptors
\* Variant in which 0 * nan is 0.
FMulZeroWins(a, b) ==
    IF (~a.nan /\ a.v = 0) \/ (~b.nan /\ b.v = 0) THEN F(0)
    ELSE IF a.nan \/ b.nan THEN NaN ELSE F(a.v * b.v)

\* IEEE arithmetic on [nan, v]: not-a-number absorbs.
FMul(a, b) == IF a.nan \/ b.nan THEN NaN ELSE F(a.v * b.v)
FAdd(a, b) == IF a.nan \/ b.nan THEN NaN ELSE F(a.v + b.v)
\* a > b on floats: False whenever an operand is not-a-number.
FGt(a, b) == ~a.nan /\ ~b.nan /\ a.v > b.v

RECURSIVE NpSum(_)
NpSum(arr) == IF arr = <<>> THEN F(0) ELSE FAdd(NpSum(DropLast(arr)), arr[Len(arr)])

Min2(a, b) == IF a <= b THEN a ELSE b
Reverse(s) == [i \in 1..Len(s) |-> s[Len(s) + 1 - i]]

\* Variant pairing each coordination number with another species' enthalpy.
EbSumOfCrossed(CN_dict, Eb_dict) ==
    LET CN_array == Values(CN_dict)
        Eb_array == Reverse(Values(Eb_dict))
    IN  NpSum([i \in 1..Len(CN_array) |-> FMul(F(CN_array[i]), Eb_array[i])])

\* np.sum(np.array(list(CN_dict.values())) * np.array(list(Eb_dict.values())))
EbSumOf(CN_dict, Eb_dict) ==
    LET CN_array == Values(CN_dict)
        Eb_array == Values(Eb_dict)
    IN  NpSum([i \in 1..Len(CN_array) |-> FMul(F(CN_array[i]), Eb_array[i])])

\* The builtin max over a sequence: ValueError when empty, else the first
\* item replaced by each later item that compares greater.
RECURSIVE PyMaxFrom(_, _)
PyMaxFrom(best, rest) ==
    IF rest = <<>> THEN best
    ELSE PyMaxFrom(IF FGt(rest[1], best) THEN rest[1] ELSE best, Tail(rest))

PyMax(xs) ==
    IF xs = <<>> THEN [kind |-> "error", exc |-> "ValueError", value |-> NaN]
    ELSE [kind |-> "ok", exc |-> "", value |-> PyMaxFrom(xs[1], Tail(xs))]

\* Variant falling back to 0 (max(..., default=0), nan read as 0).
VrMaxOfDefaultZero(Vr_dict) ==
    LET m == PyMax(Values(Vr_dict))
    IN  IF m.kind = "error" THEN F(0)
        ELSE IF m.value.nan THEN F(0) ELSE m.value

\* try: max(Vr_dict.values())  except ValueError: np.nan
VrMaxOf(Vr_dict) ==
    LET m == PyMax(Values(Vr_dict))
    IN  IF m.kind = "error" THEN NaN ELSE m.value

\* for CN_dict, Eb_dict in zip(CN, Eb): Eb_sum.append(...)
EbSumList(CN, Eb) ==
    [i \in 1..Min2(Len(CN), Len(Eb)) |-> EbSumOf(CN[i], Eb[i])]

\* for Vr_dict in Vr: Vr_max.append(...)
VrMaxList(Vr) == [i \in 1..Len(Vr) |-> VrMaxOf(Vr[i])]

\* ----------------------------------------------------------------- state
VARIABLES
    species_string, parsed, pc,          \* a call of _parse_species_string
    eb, vr,                              \* self.eb, self.vr
    structure, species_symbol,           \* self.structure, self.species_symbol
    cn_dicts_initialized, cn_dicts,      \* self._cn_dicts_initialized, self.cn_dicts
    enumerations,                        \* runs of the site enumeration so far
    bond_dissociation_enthalpies,        \* self.bond_dissociation_enthalpies
    reduction_potentials,                \* self.reduction_potentials
    stage,                               \* "new" before __init__, then "constructed"
    returned,                            \* what the latest method call returned
    described, Eb_sum, Vr_max,           \* the lists get_descriptors builds
    permuted, cn_perm, Vr_max_perm       \* the same site, species listed in another order

parser_vars == <<species_string, parsed, pc>>
input_vars == <<eb, vr, structure, species_symbol>>
self_vars == <<cn_dicts_initialized, cn_dicts, enumerations>>
value_vars == <<bond_dissociation_enthalpies, reduction_potentials>>
descriptor_vars == <<described, Eb_sum, Vr_max>>
perm_vars == <<permuted, cn_perm, Vr_max_perm>>
vars == <<parser_vars, input_vars, self_vars, value_vars, stage, returned,
          descriptor_vars, perm_vars>>

Self == [cn_dicts_initialized |-> cn_dicts_initialized,
         cn_dicts |-> cn_dicts,
         enumerations |-> enumerations]

NoCall == [fn |-> "", column |-> "", value |-> <<>>]

\* ----------------------------------------------------------------- Init
ParserIdle ==
    /\ species_string = <<>>
    /\ parsed = Raise("")
    /\ pc = "idle"

\* Before __init__ ran: nothing enumerated, nothing looked up.
CrystalNew ==
    /\ species_symbol = <<"O">>
    /\ cn_dicts_initialized = FALSE
    /\ cn_dicts = <<>>
    /\ enumerations = 0
    /\ bond_dissociation_enthalpies = <<>>
    /\ reduction_potentials = <<>>
    /\ stage = "new"
    /\ returned = NoCall
    /\ described = FALSE
    /\ Eb_sum = <<>>
    /\ Vr_max = <<>>
    /\ permuted = FALSE
    /\ cn_perm = <<>>
    /\ Vr_max_perm = <<>>

Init ==
    /\ ParserIdle
    /\ CrystalNew
    /\ eb \in SampleEb
    /\ vr \in SampleVr
    /\ structure \in Structures(SiteCNValues)

\* One oxygen vacancy, and one of the two tables drawn from all tables.
InitAgg ==
    /\ ParserIdle
    /\ CrystalNew
    /\ \E d \in Records(CNValues) : structure = <<Vacancy(<<"O">>, d)>>
    /\ \/ eb \in Tables /\ vr = <<>>
       \/ eb = <<>> /\ vr \in Tables

InitParse ==
    /\ species_string \in Strings
    /\ parsed = Raise("")
    /\ pc = "call"
    /\ CrystalNew
    /\ eb = <<>>
    /\ vr = <<>>
    /\ structure = <<>>

\* -------------------------------------------------------------- actions
\* _parse_species_string(species_string)
ParseStep ==
    /\ pc = "call"
    /\ parsed' = ParseSpeciesString(species_string)
    /\ pc' = "returned"
    /\ UNCHANGED <<species_string, input_vars, self_vars, value_vars, stage,
                   returned, descriptor_vars, perm_vars>>

\* Crystal.__init__, from self._cn_dicts_initialized = False on.
Construct ==
    /\ stage = "new"
    /\ LET self0 == [cn_dicts_initialized |-> FALSE, cn_dicts |-> <<>>, enumerations |-> 0]
           first == GetValuesCall(self0, eb, structure, species_symbol)
           second == GetValuesCall(first.self, vr, structure, species_symbol)
       IN  /\ cn_dicts_initialized' = second.self.cn_dicts_initialized
           /\ cn_dicts' = second.self.cn_dicts
           /\ enumerations' = second.self.enumerations
           /\ bond_dissociation_enthalpies' = first.values
           /\ reduction_potentials' = second.values
    /\ stage' = "constructed"
    /\ UNCHANGED <<parser_vars, input_vars, returned, descriptor_vars, perm_vars>>

\* A later call of crystal._initialize_structure_analysis()
CallInitializeStructureAnalysis ==
    /\ stage = "constructed"
    /\ LET after == InitializeStructureAnalysis(Self, structure, species_symbol)
       IN  /\ cn_dicts_initialized' = after.cn_dicts_initialized
           /\ cn_dicts' = after.cn_dicts
           /\ enumerations' = after.enumerations
           /\ returned' = [fn |-> "_initialize_structure_analysis", column |-> "",
                           value |-> after.cn_dicts]
    /\ UNCHANGED <<parser_vars, input_vars, value_vars, stage, descriptor_vars, perm_vars>>

\* A later call of crystal._get_values(dataframe, column_name, comparison)
CallGetValues ==
    /\ stage = "constructed"
    /\ \E column \in {"Eb", "Vr"} :
         LET call == GetValuesCall(Self, IF column = "Eb" THEN eb ELSE vr,
                                   structure, species_symbol)
         IN  /\ cn_dicts_initialized' = call.self.cn_dicts_initialized
             /\ cn_dicts' = call.self.cn_dicts
             /\ enumerations' = call.self.enumerations
             /\ returned' = [fn |-> "_get_values", column |-> column, value |-> call.values]
    /\ UNCHANGED <<parser_vars, input_vars, value_vars, stage, descriptor_vars, perm_vars>>

\* get_descriptors on the crystal (its pickle carries every attribute over).
GetDescriptors ==
    /\ stage = "constructed"
    /\ Eb_sum' = EbSumList(cn_dicts, bond_dissociation_enthalpies)
    /\ Vr_max' = VrMaxList(reduction_potentials)
    /\ described' = TRUE
    /\ UNCHANGED <<parser_vars, input_vars, self_vars, value_vars, stage, returned, perm_vars>>

IsPermutationOf(d, e) ==
    /\ Len(d) = Len(e)
    /\ \A i \in 1..Len(d) : \E j \in 1..Len(e) : d[i] = e[j]
    /\ \A j \in 1..Len(e) : \E i \in 1..Len(d) : d[i] = e[j]

\* The same crystal with the species of its site listed in another order:
\* constructed and described like the first.
DescribePermuted ==
    /\ described
    /\ ~permuted
    /\ Len(cn_dicts) = 1
    /\ \E d \in Records(CNValues) :
         /\ IsPermutationOf(d, cn_dicts[1])
         /\ cn_perm' = <<d>>
         /\ Vr_max_perm' = VrMaxList(GetValues(<<d>>, vr))
    /\ permuted' = TRUE
    /\ UNCHANGED <<parser_vars, input_vars, self_vars, value_vars, stage, returned,
                   descriptor_vars>>

\* ------------------------------------------------------- specifications
Next ==
    \/ Construct
    \/ CallInitializeStructureAnalysis
    \/ CallGetValues
    \/ GetDescriptors

Spec == Init /\ [][Next]_vars

NextAgg ==
    \/ Construct
    \/ GetDescriptors
    \/ DescribePermuted

SpecAgg == InitAgg /\ [][NextAgg]_vars

NextParse == ParseStep

SpecParse == InitParse /\ [][NextParse]_vars

\* --------------------------------------------------------------- claims
\* Table matching and sums restated independently of the lookup code above.
Matches(row, key) ==
    LET species == SpeciesFromString(key)
    IN  row.elem = species.symbol /\ row.cmp = species.oxi

NoRow(dataframe, key) == \A r \in 1..Len(dataframe) : ~Matches(dataframe[r], key)

KeySet(d) == {d[i][1] : i \in 1..Len(d)}

RECURSIVE SumOverKeys(_, _, _)
SumOverKeys(ks, CN_dict, Eb_dict) ==
    IF ks = {} THEN 0
    ELSE LET k == CHOOSE x \in ks : TRUE
         IN  Get(CN_dict, k) * Get(Eb_dict, k).v + SumOverKeys(ks \ {k}, CN_dict, Eb_dict)

\* The stored value for key in value_dict is the first matching row's value,
\* or not-a-number when no row matches.
FirstMatchStored(dataframe, value_dict, key) ==
    /\ HasKey(value_dict, key)
    /\ \/ NoRow(dataframe, key) /\ Get(value_dict, key) = NaN
       \/ \E r \in 1..Len(dataframe) :
            /\ Matches(dataframe[r], key)
            /\ \A q \in 1..(r - 1) : ~Matches(dataframe[q], key)
            /\ Get(value_dict, key) = F(dataframe[r].val)

\* C1: when every species of a record has a known enthalpy, Eb_sum of the
\* record is the sum over its species of the coordination number of the
\* species times the enthalpy looked up for that same species.
C1_EbSumIsDotProduct ==
    described =>
        \A i \in 1..Len(cn_dicts) :
            (\A k \in KeySet(cn_dicts[i]) : ~NoRow(eb, k)) =>
                /\ i \in DOMAIN Eb_sum
                /\ Eb_sum[i] = F(SumOverKeys(KeySet(cn_dicts[i]), cn_dicts[i],
                                             bond_dissociation_enthalpies[i]))

C1_Witness ==
    /\ described
    /\ Len(cn_dicts) = 1
    /\ Len(cn_dicts[1]) = 2
    /\ \A k \in KeySet(cn_dicts[1]) : ~NoRow(eb, k)
    /\ cn_dicts[1][1][2] # cn_dicts[1][2][2]
    /\ bond_dissociation_enthalpies[1][1][2] # bond_dissociation_enthalpies[1][2][2]
    /\ Eb_sum[1] = F(4)

\* C2: when some species of a record has no row in the enthalpy table, Eb_sum
\* of the record is not-a-number, whatever the position of that species and
\* whatever its coordination number (0 included).
C2_UnknownPoisonsEbSum ==
    described =>
        \A i \in 1..Len(cn_dicts) :
            (\E k \in KeySet(cn_dicts[i]) : NoRow(eb, k)) =>
                /\ i \in DOMAIN Eb_sum
                /\ Eb_sum[i] = NaN

C2_Witness ==
    /\ described
    /\ Len(cn_dicts) = 1
    /\ Len(cn_dicts[1]) = 2
    /\ NoRow(eb, cn_dicts[1][2][1])
    /\ cn_dicts[1][2][2] = 0
    /\ ~NoRow(eb, cn_dicts[1][1][1])
    /\ cn_dicts[1][1][2] > 0
    /\ Eb_sum[1] = NaN

\* C3: for a record that is empty, or whose species all lack a row in the
\* potential table, Vr_max is not-a-number, and get_descriptors completes.
C3_VrMaxUnknown ==
    described =>
        \A i \in 1..Len(cn_dicts) :
            (\A k \in KeySet(cn_dicts[i]) : NoRow(vr, k)) =>
                /\ i \in DOMAIN Vr_max
                /\ Vr_max[i] = NaN

C3_Witness ==
    /\ described
    /\ Len(cn_dicts) = 2
    /\ cn_dicts[1] = <<>>
    /\ Len(cn_dicts[2]) = 2
    /\ \A k \in KeySet(cn_dicts[2]) : NoRow(vr, k)
    /\ Vr_max = <<NaN, NaN>>

\* C4: the value _get_values stores for a species is the value of the first
\* row, in table order, whose symbol and comparison column match the species,
\* and not-a-number when no row matches.
C4_FirstMatchingRow ==
    stage = "constructed" =>
        /\ Len(bond_dissociation_enthalpies) = Len(cn_dicts)
        /\ Len(reduction_potentials) = Len(cn_dicts)
        /\ \A i \in 1..Len(cn_dicts) : \A k \in KeySet(cn_dicts[i]) :
              /\ FirstMatchStored(eb, bond_dissociation_enthalpies[i], k)
              /\ FirstMatchStored(vr, reduction_potentials[i], k)

C4_Witness ==
    /\ stage = "constructed"
    /\ Len(cn_dicts) = 1
    /\ Len(eb) = 2
    /\ eb[1].val # eb[2].val
    /\ \E k \in KeySet(cn_dicts[1]) :
          /\ Matches(eb[1], k)
          /\ Matches(eb[2], k)
          /\ Get(bond_dissociation_enthalpies[1], k) = F(eb[1].val)

\* -------- the species-key classes of the parser claims
LetterPrefix(s) == RunLen(s, 1, Letters)
DigitsAfter(s) == RunLen(s, LetterPrefix(s) + 1, Digits)
DigitRun(s) == SubSeq(s, LetterPrefix(s) + 1, LetterPrefix(s) + DigitsAfter(s))

\* letters then digits, nothing else
IsFallbackForm(s) ==
    /\ LetterPrefix(s) >= 1
    /\ DigitsAfter(s) >= 1
    /\ LetterPrefix(s) + DigitsAfter(s) = Len(s)

\* an element symbol, digits, one trailing sign
IsFormalForm(s) ==
    /\ SubSeq(s, 1, LetterPrefix(s)) \in ElementSymbols
    /\ DigitsAfter(s) >= 1
    /\ LetterPrefix(s) + DigitsAfter(s) + 1 = Len(s)
    /\ s[Len(s)] \in Signs

\* neither letters+digits nor letters+digits+sign
IsMalformed(s) ==
    ~ /\ LetterPrefix(s) >= 1
      /\ DigitsAfter(s) >= 1
      /\ \/ LetterPrefix(s) + DigitsAfter(s) = Len(s)
         \/ /\ LetterPrefix(s) + DigitsAfter(s) + 1 = Len(s)
            /\ s[Len(s)] \in Signs

\* C5: a fallback-form key parses to its leading letters and the value of its
\* whole digit run.
C5_FallbackKeepsDigits ==
    (pc = "returned" /\ IsFallbackForm(species_string)) =>
        /\ parsed.kind = "ok"
        /\ parsed.symbol = SubSeq(species_string, 1, LetterPrefix(species_string))
        /\ parsed.oxi = DecimalValue(DigitRun(species_string))

\* C6: a formal key parses to its symbol and its signed oxidation state, +n
\* for a trailing "+" and -n for a trailing "-".
C6_FormalKeySigned ==
    (pc = "returned" /\ IsFormalForm(species_string)) =>
        /\ parsed.kind = "ok"
        /\ parsed.symbol = SubSeq(species_string, 1, LetterPrefix(species_string))
        /\ parsed.oxi = IF species_string[Len(species_string)] = "-"
                        THEN 0 - DecimalValue(DigitRun(species_string))
                        ELSE DecimalValue(DigitRun(species_string))

\* C7: a key that neither path can parse ends in an error, never in a result
\* (in particular never one with an empty symbol).
C7_MalformedKeyRaises ==
    (pc = "returned" /\ IsMalformed(species_string)) => parsed.kind = "error"

\* C8: the enumeration runs at most once, the flag never goes back to false,
\* cn_dicts and the stored values do not change after construction, and every
\* later call returns what the first call produced.
C8_Step ==
    /\ cn_dicts_initialized => (cn_dicts_initialized' /\ cn_dicts' = cn_dicts)
    /\ enumerations' <= 1
    /\ stage = "constructed" =>
          /\ bond_dissociation_enthalpies' = bond_dissociation_enthalpies
          /\ reduction_potentials' = reduction_potentials
    /\ (returned'.fn = "_initialize_structure_analysis") => returned'.value = cn_dicts'
    /\ (returned'.fn = "_get_values" /\ returned'.column = "Eb") =>
          returned'.value = bond_dissociation_enthalpies'
    /\ (returned'.fn = "_get_values" /\ returned'.column = "Vr") =>
          returned'.value = reduction_potentials'

C8_NoHiddenState == [][C8_Step]_vars

C8_Witness ==
    /\ stage = "constructed"
    /\ returned.fn = "_get_values"
    /\ returned.column = "Eb"
    /\ enumerations = 1
    /\ Len(cn_dicts) = 2
    /\ returned.value = bond_dissociation_enthalpies
    /\ returned.value[1] # <<>>

\* C9: one value dict, one Eb_sum and one Vr_max per record, in the order of
\* the records; the value dict of record i has the keys of record i; with no
\* record every output is empty.
C9_OnePerRecord ==
    /\ stage = "constructed" =>
          /\ Len(bond_dissociation_enthalpies) = Len(cn_dicts)
          /\ Len(reduction_potentials) = Len(cn_dicts)
          /\ \A i \in 1..Len(cn_dicts) :
                /\ Keys(bond_dissociation_enthalpies[i]) = Keys(cn_dicts[i])
                /\ Keys(reduction_potentials[i]) = Keys(cn_dicts[i])
    /\ described =>
          /\ Len(Eb_sum) = Len(cn_dicts)
          /\ Len(Vr_max) = Len(cn_dicts)
          /\ \A i \in 1..Len(cn_dicts) :
                /\ (cn_dicts[i] = <<>>) => (Eb_sum[i] = F(0) /\ Vr_max[i] = NaN)
                /\ Vr_max[i] = NaN \/ \E j \in 1..Len(reduction_potentials[i]) :
                                          Vr_max[i] = reduction_potentials[i][j][2]

C9_Witness ==
    /\ described
    /\ Len(cn_dicts) = 2
    /\ cn_dicts[1] = <<>>
    /\ Len(cn_dicts[2]) = 2
    /\ Len(Eb_sum) = 2
    /\ Vr_max[1] = NaN
    /\ Vr_max[2] # NaN

\* C10: Vr_max of a record does not depend on the order in which its species
\* are listed.
C10_VrMaxOrderFree ==
    permuted => Vr_max_perm = Vr_max

====
